---- MODULE Spec2Model ----
(***************************************************************************)
(* Closed queuing network simulation (closed_queuing_network.py).          *)
(*                                                                         *)
(* The model follows the Python source: Event / heapq event list, Station, *)
(* ClosedQueueingNetwork and its run loop.  Times are integers; the global  *)
(* numpy random state is a position in a per-seed stream of uniforms.       *)
(***************************************************************************)
EXTENDS Integers, Sequences, FiniteSets, TLC

\* ------------------------------------------------------------------ bounds
MaxJobs == 3
MaxSimTime == 2
MaxWarmup == 2

\* ------------------------------------------------------- values and inputs
None == -1

ARRIVAL == "arrival"
DEPARTURE == "departure"

Engines == {1, 2}

\* stream 0 is the process entropy numpy starts from when nobody seeds it
Seeds == {1, 2}
Streams == {0} \cup Seeds

\* one cell of a random stream; a draw consumes one cell
Uniforms == {0, 1}

\* routing rows hold weights in units of 1 / Cardinality(Uniforms)
RowOne == Cardinality(Uniforms)

Cyclic == <<<<0, 2>>, <<2, 0>>>>
Mixed == <<<<1, 1>>, <<2, 0>>>>
SelfLoop == <<<<2>>>>
BadRow == <<<<0, 2>>, <<1, 0>>>>

ValidMatrices == {Cyclic, Mixed}

\* ----------------------------------------------------------- heapq, Event
\* Event.__lt__ generated by dataclass(order=True): only `time` is compared
EventLt(a, b) == a.time < b.time

Event(time, event_type, job_id, station_id) ==
    [time |-> time, event_type |-> event_type, job_id |-> job_id, station_id |-> station_id]

NoEvent == Event(0, "none", None, None)

\* heap positions are 0-based as in heapq; the sequence is 1-based
RECURSIVE siftdown(_, _, _, _)
siftdown(heap, startpos, pos, newitem) ==
    IF pos > startpos
    THEN LET parentpos == (pos - 1) \div 2
             parent == heap[parentpos + 1]
         IN  IF EventLt(newitem, parent)
             THEN siftdown([heap EXCEPT ![pos + 1] = parent], startpos, parentpos, newitem)
             ELSE [heap EXCEPT ![pos + 1] = newitem]
    ELSE [heap EXCEPT ![pos + 1] = newitem]

RECURSIVE siftup(_, _, _, _)
siftup(heap, startpos, pos, newitem) ==
    LET endpos == Len(heap)
        childpos == 2 * pos + 1
    IN  IF childpos < endpos
        THEN LET rightpos == childpos + 1
                 c == IF rightpos < endpos /\ ~EventLt(heap[childpos + 1], heap[rightpos + 1])
                      THEN rightpos ELSE childpos
             IN  siftup([heap EXCEPT ![pos + 1] = heap[c + 1]], startpos, c, newitem)
        ELSE siftdown([heap EXCEPT ![pos + 1] = newitem], startpos, pos, newitem)

heappush(heap, item) == siftdown(Append(heap, item), 0, Len(heap), item)

\* heappop() taking the last element of the list, as list.pop() would
heappop_last(heap) ==
    [item |-> heap[Len(heap)], heap |-> SubSeq(heap, 1, Len(heap) - 1)]

\* returns the popped item and the remaining heap
heappop(heap) ==
    LET lastelt == heap[Len(heap)]
        rest == SubSeq(heap, 1, Len(heap) - 1)
    IN  IF rest # <<>>
        THEN [item |-> rest[1], heap |-> siftup([rest EXCEPT ![1] = lastelt], 0, 0, lastelt)]
        ELSE [item |-> lastelt, heap |-> rest]

\* ----------------------------------------------------------------- Station
NewStation(station_id, num_servers, mean_service_time) ==
    [station_id |-> station_id, num_servers |-> num_servers,
     mean_service_time |-> mean_service_time,
     queue |-> <<>>, servers_busy |-> 0,
     total_arrivals |-> 0, total_departures |-> 0, total_queue_time |-> 0,
     total_service_time |-> 0, queue_length_sum |-> 0, last_update_time |-> 0]

\* is_available() off by one: a full station still counts as available
is_available_off_by_one(s) == s.servers_busy <= s.num_servers

is_available(s) == s.servers_busy < s.num_servers

update_queue_stats(s, t) ==
    IF s.last_update_time > 0
    THEN [s EXCEPT !.queue_length_sum = @ + Len(s.queue) * (t - s.last_update_time),
                   !.last_update_time = t]
    ELSE [s EXCEPT !.last_update_time = t]

add_to_queue(s, job_id, t) ==
    LET u == update_queue_stats(s, t)
    IN  [u EXCEPT !.queue = Append(@, job_id), !.total_arrivals = @ + 1]

\* start_service() taking the newest job, queue.pop() instead of queue.pop(0)
start_service_lifo(s, t) ==
    LET u == update_queue_stats(s, t)
    IN  IF u.queue # <<>> /\ is_available(u)
        THEN [station |-> [u EXCEPT !.queue = SubSeq(@, 1, Len(@) - 1),
                                    !.servers_busy = @ + 1],
              job_id |-> u.queue[Len(u.queue)]]
        ELSE [station |-> u, job_id |-> None]

\* returns the station after the call and the job taken (None when none)
start_service(s, t) ==
    LET u == update_queue_stats(s, t)
    IN  IF u.queue # <<>> /\ is_available(u)
        THEN [station |-> [u EXCEPT !.queue = Tail(@), !.servers_busy = @ + 1],
              job_id |-> Head(u.queue)]
        ELSE [station |-> u, job_id |-> None]

\* complete_service() that frees the server without counting the departure
complete_service_uncounted(s, t) ==
    LET u == update_queue_stats(s, t)
    IN  [u EXCEPT !.servers_busy = @ - 1]

\* complete_service() that counts the departure but keeps the server busy
complete_service_keep_busy(s, t) ==
    LET u == update_queue_stats(s, t)
    IN  [u EXCEPT !.total_departures = @ + 1]

complete_service(s, t) ==
    LET u == update_queue_stats(s, t)
    IN  [u EXCEPT !.servers_busy = @ - 1, !.total_departures = @ + 1]

\* np.random.exponential(scale): one cell of the stream, scaled
ExpUnit(u) == u + 1
generate_service_time(s, u) == s.mean_service_time * ExpUnit(u)

\* denominators of the derived statistics
utilization_denominator(s) == s.num_servers * s.last_update_time
avg_queue_length_denominator(s) == s.last_update_time

\* ------------------------------------------------------------- random state
\* np.random is one process-wide generator: rng is its seed and position,
\* tape[s] the cells of stream s that have been looked at so far
VARIABLES net, rng, tape

vars == <<net, rng, tape>>

\* the next k cells of the global generator; cells already seen are fixed
Peek(k) ==
    {d \in [1..k -> Uniforms] :
        \A i \in 1..k : rng.pos + i <= Len(tape[rng.seed]) => d[i] = tape[rng.seed][rng.pos + i]}

Consumed(d, used) ==
    LET old == tape[rng.seed]
    IN  IF rng.pos + used <= Len(old) THEN old
        ELSE SubSeq(old, 1, rng.pos) \o SubSeq(d, 1, used)

\* np.random.choice(n, p = row) by inverse cdf on one cell
RECURSIVE SumRow(_)
SumRow(row) == IF row = <<>> THEN 0 ELSE Head(row) + SumRow(Tail(row))

Choice(u, row) ==
    (CHOOSE k \in 1..Len(row) :
        /\ SumRow(SubSeq(row, 1, k)) > u
        /\ \A j \in 1..(k - 1) : SumRow(SubSeq(row, 1, j)) <= u) - 1

\* ------------------------------------------------- ClosedQueueingNetwork
AbsentEngine ==
    [pc |-> "absent", seed |-> None, num_jobs |-> 0, routing_matrix |-> <<>>,
     num_stations |-> 0, stations |-> <<>>, jobs |-> <<>>, event_queue |-> <<>>,
     current_time |-> 0, jobs_in_transit |-> {}, total_completions |-> 0,
     warmup_completions |-> 0,
     simulation_time |-> 0, warmup_time |-> 0, warmup_done |-> FALSE, event |-> NoEvent,
     error |-> "none", reset_clock |-> None, trace |-> <<>>, draws |-> <<>>]

Running(e) == net[e].pc \in {"loop", "popped"}

\* the program is sequential: nothing else happens while some run() is on the stack
Idle == \A e \in Engines : ~Running(e)

Ok(n, used) == [net |-> n, used |-> used, error |-> "none"]
Raise(n, used, kind) == [net |-> n, used |-> used, error |-> kind]

schedule_event(n, time, event_type, job_id, station_id) ==
    [n EXCEPT !.event_queue = heappush(@, Event(time, event_type, job_id, station_id))]

\* __init__ without the np.random.seed(seed) call
Construct_unseeded(e, jobs, matrix, seed) ==
    /\ Idle
    /\ net[e].pc = "absent"
    /\ net' = [net EXCEPT ![e] = [AbsentEngine EXCEPT
                    !.pc = "built", !.seed = seed, !.num_jobs = jobs,
                    !.routing_matrix = matrix, !.num_stations = Len(matrix)]]
    /\ UNCHANGED <<rng, tape>>

\* __init__
Construct(e, jobs, matrix, seed) ==
    /\ Idle
    /\ net[e].pc = "absent"
    /\ rng' = IF seed # None THEN [seed |-> seed, pos |-> 0] ELSE rng
    /\ net' = [net EXCEPT ![e] = [AbsentEngine EXCEPT
                    !.pc = "built", !.seed = seed, !.num_jobs = jobs,
                    !.routing_matrix = matrix, !.num_stations = Len(matrix)]]
    /\ UNCHANGED tape

\* add_station
AddStation(e, num_servers, mean_service_time) ==
    /\ Idle
    /\ net[e].pc = "built"
    /\ net' = [net EXCEPT ![e].stations =
                    Append(@, NewStation(Len(@), num_servers, mean_service_time))]
    /\ UNCHANGED <<rng, tape>>

\* initialize_jobs: the loop pushes one Arrival at time 0 per job
RECURSIVE PushInitial(_, _, _, _)
PushInitial(heap, job_id, num_jobs, initial_station) ==
    IF job_id >= num_jobs THEN heap
    ELSE PushInitial(heappush(heap, Event(0, ARRIVAL, job_id, initial_station)),
                     job_id + 1, num_jobs, initial_station)

InitializeJobs(e, initial_station) ==
    /\ Idle
    /\ net[e].pc = "built"
    /\ net' = [net EXCEPT ![e] = [@ EXCEPT
                    !.pc = "ready",
                    !.jobs = [j \in 0..(net[e].num_jobs - 1) |-> [station_visits |-> <<>>]],
                    !.event_queue = PushInitial(@, 0, net[e].num_jobs, initial_station)]]
    /\ UNCHANGED <<rng, tape>>

\* get_next_station: the row lookup and np.random.choice
get_next_station(n, current_station, u) ==
    IF current_station >= Len(n.routing_matrix)
    THEN [error |-> "IndexError", station |-> None]
    ELSE LET probabilities == n.routing_matrix[current_station + 1]
         IN  IF Len(probabilities) # n.num_stations \/ SumRow(probabilities) # RowOne
             THEN [error |-> "ValueError", station |-> None]
             ELSE [error |-> "none", station |-> Choice(u, probabilities)]

\* the service start without the schedule_event() of the Departure
begin_service_unscheduled(n, sid, job_to_serve, visitor, visit_start, d, k) ==
    LET station == n.stations[sid + 1]
    IN  IF station.mean_service_time < 0
        THEN Raise(n, k, "ValueError")
        ELSE LET service_time == generate_service_time(station, d[k + 1])
                 departure_time == n.current_time + service_time
                 n1 == [n EXCEPT
                          !.stations[sid + 1].total_service_time = @ + service_time,
                          !.jobs[visitor].station_visits =
                              Append(@, <<sid, visit_start, departure_time>>)]
             IN  Ok(n1, k + 1)

\* lines 211-223 and 240-253: draw the service time, book it, record the
\* visit on `visitor` at `visit_start`, schedule the departure of job_to_serve
begin_service(n, sid, job_to_serve, visitor, visit_start, d, k) ==
    LET station == n.stations[sid + 1]
    IN  IF station.mean_service_time < 0
        THEN Raise(n, k, "ValueError")
        ELSE LET service_time == generate_service_time(station, d[k + 1])
                 departure_time == n.current_time + service_time
                 n1 == [n EXCEPT
                          !.stations[sid + 1].total_service_time = @ + service_time,
                          !.jobs[visitor].station_visits =
                              Append(@, <<sid, visit_start, departure_time>>)]
             IN  Ok(schedule_event(n1, departure_time, DEPARTURE, job_to_serve, sid), k + 1)

\* process_arrival() without the jobs_in_transit.discard() of line 198
process_arrival_keep_transit(n, ev, d) ==
    LET sid == ev.station_id
    IN  IF sid >= Len(n.stations)
        THEN Raise(n, 0, "IndexError")
        ELSE LET arrival_time == ev.time
                 queued == add_to_queue(n.stations[sid + 1], ev.job_id, n.current_time)
                 n1 == [n EXCEPT !.stations[sid + 1] = queued]
             IN  IF ~is_available(queued)
                 THEN Ok(n1, 0)
                 ELSE LET r == start_service(queued, n.current_time)
                          n2 == [n1 EXCEPT !.stations[sid + 1] = r.station]
                      IN  IF r.job_id = None
                          THEN Ok(n2, 0)
                          ELSE begin_service(n2, sid, r.job_id, ev.job_id, arrival_time, d, 0)

process_arrival(n, ev, d) ==
    LET sid == ev.station_id
    IN  IF sid >= Len(n.stations)
        THEN Raise(n, 0, "IndexError")
        ELSE LET arrival_time == ev.time
                 queued == add_to_queue(n.stations[sid + 1], ev.job_id, n.current_time)
                 n1 == [n EXCEPT !.jobs_in_transit = @ \ {ev.job_id},
                                 !.stations[sid + 1] = queued]
             IN  IF ~is_available(queued)
                 THEN Ok(n1, 0)
                 ELSE LET r == start_service(queued, n.current_time)
                          n2 == [n1 EXCEPT !.stations[sid + 1] = r.station]
                      IN  IF r.job_id = None
                          THEN Ok(n2, 0)
                          ELSE begin_service(n2, sid, r.job_id, ev.job_id, arrival_time, d, 0)

\* route() forgetting to mark the departing job as in transit
route_untracked(n, ev, d, k) ==
    LET g == get_next_station(n, ev.station_id, d[k + 1])
    IN  IF g.error # "none"
        THEN Raise(n, k, g.error)
        ELSE Ok(schedule_event(n, n.current_time, ARRIVAL, ev.job_id, g.station), k + 1)

\* routing that marks the job in transit but schedules no Arrival for it
route_dropped(n, ev, d, k) ==
    LET g == get_next_station(n, ev.station_id, d[k + 1])
    IN  IF g.error # "none"
        THEN Raise(n, k, g.error)
        ELSE Ok([n EXCEPT !.jobs_in_transit = @ \cup {ev.job_id}], k + 1)

\* routing with a transit delay: the Arrival is scheduled one time unit later
route_delayed(n, ev, d, k) ==
    LET g == get_next_station(n, ev.station_id, d[k + 1])
    IN  IF g.error # "none"
        THEN Raise(n, k, g.error)
        ELSE Ok(schedule_event([n EXCEPT !.jobs_in_transit = @ \cup {ev.job_id}],
                               n.current_time + 1, ARRIVAL, ev.job_id, g.station), k + 1)

\* lines 255-263
route(n, ev, d, k) ==
    LET g == get_next_station(n, ev.station_id, d[k + 1])
    IN  IF g.error # "none"
        THEN Raise(n, k, g.error)
        ELSE Ok(schedule_event([n EXCEPT !.jobs_in_transit = @ \cup {ev.job_id}],
                               n.current_time, ARRIVAL, ev.job_id, g.station), k + 1)

\* process_departure() without the total_completions += 1 of line 234
process_departure_uncounted(n, ev, d) ==
    LET sid == ev.station_id
        done == complete_service(n.stations[sid + 1], n.current_time)
        n1 == [n EXCEPT !.stations[sid + 1] = done]
        served ==
            IF done.queue = <<>>
            THEN Ok(n1, 0)
            ELSE LET r == start_service(done, n.current_time)
                     n2 == [n1 EXCEPT !.stations[sid + 1] = r.station]
                 IN  IF r.job_id = None
                     THEN Ok(n2, 0)
                     ELSE begin_service(n2, sid, r.job_id, r.job_id, n.current_time, d, 0)
    IN  IF served.error # "none" THEN served ELSE route(served.net, ev, d, served.used)

\* process_departure() that frees the server and leaves the queue waiting
process_departure_idle(n, ev, d) ==
    LET sid == ev.station_id
        done == complete_service(n.stations[sid + 1], n.current_time)
        n1 == [n EXCEPT !.stations[sid + 1] = done, !.total_completions = @ + 1]
    IN  route(n1, ev, d, 0)

\* process_departure() recording the visit of the job taken from the queue
\* in the history of the departing job
process_departure_wrong_visitor(n, ev, d) ==
    LET sid == ev.station_id
        done == complete_service(n.stations[sid + 1], n.current_time)
        n1 == [n EXCEPT !.stations[sid + 1] = done, !.total_completions = @ + 1]
        served ==
            IF done.queue = <<>>
            THEN Ok(n1, 0)
            ELSE LET r == start_service(done, n.current_time)
                     n2 == [n1 EXCEPT !.stations[sid + 1] = r.station]
                 IN  IF r.job_id = None
                     THEN Ok(n2, 0)
                     ELSE begin_service(n2, sid, r.job_id, ev.job_id, n.current_time, d, 0)
    IN  IF served.error # "none" THEN served ELSE route(served.net, ev, d, served.used)

process_departure(n, ev, d) ==
    LET sid == ev.station_id
        done == complete_service(n.stations[sid + 1], n.current_time)
        n1 == [n EXCEPT !.stations[sid + 1] = done, !.total_completions = @ + 1]
        served ==
            IF done.queue = <<>>
            THEN Ok(n1, 0)
            ELSE LET r == start_service(done, n.current_time)
                     n2 == [n1 EXCEPT !.stations[sid + 1] = r.station]
                 IN  IF r.job_id = None
                     THEN Ok(n2, 0)
                     ELSE begin_service(n2, sid, r.job_id, r.job_id, n.current_time, d, 0)
    IN  IF served.error # "none" THEN served ELSE route(served.net, ev, d, served.used)

\* a reset that also empties the waiting queues
reset_statistics_and_queues(n) ==
    [n EXCEPT
        !.stations = [i \in 1..Len(n.stations) |->
                        [n.stations[i] EXCEPT
                            !.queue = <<>>,
                            !.total_arrivals = 0, !.total_departures = 0,
                            !.total_queue_time = 0, !.total_service_time = 0,
                            !.queue_length_sum = 0, !.last_update_time = n.current_time]],
        !.total_completions = 0,
        !.warmup_completions = 0]

\* a reset that leaves the engine's completion counter alone
reset_statistics_keep_completions(n) ==
    [n EXCEPT
        !.stations = [i \in 1..Len(n.stations) |->
                        [n.stations[i] EXCEPT
                            !.total_arrivals = 0, !.total_departures = 0,
                            !.total_queue_time = 0, !.total_service_time = 0,
                            !.queue_length_sum = 0, !.last_update_time = n.current_time]],
        !.warmup_completions = 0]

_reset_statistics(n) ==
    [n EXCEPT
        !.stations = [i \in 1..Len(n.stations) |->
                        [n.stations[i] EXCEPT
                            !.total_arrivals = 0, !.total_departures = 0,
                            !.total_queue_time = 0, !.total_service_time = 0,
                            !.queue_length_sum = 0, !.last_update_time = n.current_time]],
        !.total_completions = 0,
        !.warmup_completions = 0]

\* run(): entry, lines 273-277
Run(e, simulation_time, warmup_time) ==
    /\ Idle
    /\ net[e].pc = "ready"
    /\ net' = [net EXCEPT ![e] = [@ EXCEPT
                    !.pc = "loop", !.simulation_time = simulation_time,
                    !.warmup_time = warmup_time, !.warmup_done = FALSE]]
    /\ UNCHANGED <<rng, tape>>

\* a loop test that also lets in events once the clock has reached the horizon
LoopCondition_inclusive(n) ==
    n.event_queue # <<>> /\ n.current_time <= n.simulation_time

\* line 279
LoopCondition(n) == n.event_queue # <<>> /\ n.current_time < n.simulation_time

\* the physical state the statistics reset must leave alone
Physical(n) ==
    [queues |-> [i \in 1..Len(n.stations) |-> n.stations[i].queue],
     servers_busy |-> [i \in 1..Len(n.stations) |-> n.stations[i].servers_busy],
     jobs_in_transit |-> n.jobs_in_transit,
     event_queue |-> n.event_queue,
     current_time |-> n.current_time]

\* lines 279-288: loop test, pop, clock, warmup check
Pop(e) ==
    /\ net[e].pc = "loop"
    /\ LoopCondition(net[e])
    /\ LET p == heappop(net[e].event_queue)
           n1 == [net[e] EXCEPT !.pc = "popped", !.event_queue = p.heap,
                                !.event = p.item, !.current_time = p.item.time]
       IN  net' = [net EXCEPT ![e] =
                     IF ~n1.warmup_done /\ n1.current_time >= n1.warmup_time
                     THEN [_reset_statistics(n1) EXCEPT !.warmup_done = TRUE,
                                                        !.reset_clock = n1.current_time]
                     ELSE n1]
    /\ UNCHANGED <<rng, tape>>

\* lines 290-294: dispatch on the kind of the popped event
Dispatch(e, kind, r) ==
    /\ net[e].pc = "popped"
    /\ net[e].event.event_type = kind
    /\ LET ev == net[e].event
           taken == [i \in 1..r.used |-> <<rng.seed, rng.pos + i>>]
       IN  /\ net' = [net EXCEPT ![e] =
                 IF r.error = "none"
                 THEN [r.net EXCEPT !.pc = "loop", !.event = NoEvent,
                           !.draws = @ \o taken,
                           !.trace = Append(@, [event |-> ev, physical |-> Physical(r.net)])]
                 ELSE [r.net EXCEPT !.pc = "error", !.error = r.error, !.draws = @ \o taken]]
           /\ rng' = [rng EXCEPT !.pos = @ + r.used]
    /\ tape' = [tape EXCEPT ![rng.seed] = Consumed(r.d, r.used)]

ProcessArrival(e) ==
    /\ net[e].pc = "popped"
    /\ net[e].event.event_type = ARRIVAL
    /\ \E d \in Peek(1) :
        \E r \in {process_arrival(net[e], net[e].event, d)} :
            Dispatch(e, ARRIVAL, [d |-> d] @@ r)

ProcessDeparture(e) ==
    /\ net[e].pc = "popped"
    /\ net[e].event.event_type = DEPARTURE
    /\ \E d \in Peek(2) :
        \E r \in {process_departure(net[e], net[e].event, d)} :
            Dispatch(e, DEPARTURE, [d |-> d] @@ r)

\* line 296: the loop condition is false, run() returns
RunReturn(e) ==
    /\ net[e].pc = "loop"
    /\ ~LoopCondition(net[e])
    /\ net' = [net EXCEPT ![e].pc = "done"]
    /\ UNCHANGED <<rng, tape>>

\* ------------------------------------------------------------ specification
Init ==
    /\ net = [e \in Engines |-> AbsentEngine]
    /\ rng = [seed |-> 0, pos |-> 0]
    /\ tape = [s \in Streams |-> <<>>]

JobCounts == 1..MaxJobs
ServerCounts == {1, 2}
MeanServiceTimes == {1}
SimTimes == 1..MaxSimTime
WarmupTimes == 0..MaxWarmup

\* one well-formed network, built and run the way the tests and examples do
Next ==
    \/ \E jobs \in JobCounts, matrix \in ValidMatrices : Construct(1, jobs, matrix, 1)
    \/ \E c \in ServerCounts, m \in MeanServiceTimes :
          Len(net[1].stations) < net[1].num_stations /\ AddStation(1, c, m)
    \/ Len(net[1].stations) = net[1].num_stations /\ InitializeJobs(1, 0)
    \/ \E st \in SimTimes, wt \in WarmupTimes : Run(1, st, wt)
    \/ Pop(1)
    \/ ProcessArrival(1)
    \/ ProcessDeparture(1)
    \/ RunReturn(1)

Spec == Init /\ [][Next]_vars

\* run() is ordinary sequential code: once entered, the loop keeps taking
\* its next step until it returns
LiveJobCounts == {1, 2}
LiveWarmupTimes == {0}

NextLive ==
    \/ \E jobs \in LiveJobCounts, matrix \in ValidMatrices : Construct(1, jobs, matrix, 1)
    \/ \E c \in ServerCounts, m \in MeanServiceTimes :
          Len(net[1].stations) < net[1].num_stations /\ AddStation(1, c, m)
    \/ Len(net[1].stations) = net[1].num_stations /\ InitializeJobs(1, 0)
    \/ \E st \in SimTimes, wt \in LiveWarmupTimes : Run(1, st, wt)
    \/ Pop(1)
    \/ ProcessArrival(1)
    \/ ProcessDeparture(1)
    \/ RunReturn(1)

SpecLive ==
    /\ Init
    /\ [][NextLive]_vars
    /\ WF_vars(Pop(1) \/ ProcessArrival(1) \/ ProcessDeparture(1) \/ RunReturn(1))

\* any configuration the constructor and add_station accept, malformed ones too
MaxStations == 2
AnyJobCounts == 0..MaxJobs
AnyMatrices == {Cyclic, Mixed, BadRow, SelfLoop}
AnyServerCounts == {0, 1}
AnyMeanServiceTimes == {-1, 1}

NextCfg ==
    \/ \E jobs \in AnyJobCounts, matrix \in AnyMatrices : Construct(1, jobs, matrix, 1)
    \/ \E c \in AnyServerCounts, m \in AnyMeanServiceTimes :
          Len(net[1].stations) < MaxStations /\ AddStation(1, c, m)
    \/ InitializeJobs(1, 0)
    \/ \E st \in SimTimes, wt \in WarmupTimes : Run(1, st, wt)
    \/ Pop(1)
    \/ ProcessArrival(1)
    \/ ProcessDeparture(1)
    \/ RunReturn(1)

SpecCfg == Init /\ [][NextCfg]_vars

\* a run repeated on a second instance after the first has returned, with the
\* same seed and configuration, the way the WIP sweep builds one network after
\* another; the second run picks the first's warmup or none
RepeatJobCounts == {2}

NextRepeat ==
    \/ \E jobs \in RepeatJobCounts, matrix \in ValidMatrices : Construct(1, jobs, matrix, 1)
    \/ \E c \in ServerCounts, m \in MeanServiceTimes :
          Len(net[1].stations) < net[1].num_stations /\ AddStation(1, c, m)
    \/ Len(net[1].stations) = net[1].num_stations /\ InitializeJobs(1, 0)
    \/ \E st \in SimTimes, wt \in WarmupTimes : Run(1, st, wt)
    \/ net[1].pc = "done"
          /\ Construct(2, net[1].num_jobs, net[1].routing_matrix, net[1].seed)
    \/ Len(net[2].stations) < net[2].num_stations
          /\ LET s == net[1].stations[Len(net[2].stations) + 1]
             IN  AddStation(2, s.num_servers, s.mean_service_time)
    \/ Len(net[2].stations) = net[2].num_stations /\ InitializeJobs(2, 0)
    \/ \E wt \in {0, net[1].warmup_time} : Run(2, net[1].simulation_time, wt)
    \/ \E e \in Engines : Pop(e)
    \/ \E e \in Engines : ProcessArrival(e)
    \/ \E e \in Engines : ProcessDeparture(e)
    \/ \E e \in Engines : RunReturn(e)

SpecRepeat == Init /\ [][NextRepeat]_vars

\* two instances alive at once: each is built, filled and run between the
\* steps of the other, but one run() at a time
TwoJobCounts == {1}
TwoSimTimes == {MaxSimTime}

NextTwo ==
    \/ \E e \in Engines, jobs \in TwoJobCounts, seed \in Seeds \cup {None} :
          Construct(e, jobs, Mixed, seed)
    \/ \E e \in Engines :
          Len(net[e].stations) < net[e].num_stations /\ AddStation(e, 1, 1)
    \/ \E e \in Engines :
          Len(net[e].stations) = net[e].num_stations /\ InitializeJobs(e, 0)
    \/ \E e \in Engines, st \in TwoSimTimes : Run(e, st, 0)
    \/ \E e \in Engines : Pop(e)
    \/ \E e \in Engines : ProcessArrival(e)
    \/ \E e \in Engines : ProcessDeparture(e)
    \/ \E e \in Engines : RunReturn(e)

SpecTwo == Init /\ [][NextTwo]_vars

\* ------------------------------------------------------------------ claims
RECURSIVE SumOver(_, _)
SumOver(f, seq) == IF seq = <<>> THEN 0 ELSE f[Head(seq)] + SumOver(f, Tail(seq))

\* jobs accounted for: in service, waiting, or in jobs_in_transit
WIP(n) ==
    LET held == [i \in 1..Len(n.stations) |->
                    n.stations[i].servers_busy + Len(n.stations[i].queue)]
        ids == [i \in 1..Len(n.stations) |-> i]
    IN  SumOver(held, ids) + Cardinality(n.jobs_in_transit)

\* between events: initialize_jobs() has run and no handler is half-way
BetweenEvents(n) == n.pc \in {"ready", "loop", "done"}

\* C1: in every state from initialize_jobs() on, before the first event and
\* after each fully handled event, servers_busy + queue lengths summed over
\* the stations plus |jobs_in_transit| equals num_jobs.
C1_WipConservedAtEveryStep ==
    \A e \in Engines : BetweenEvents(net[e]) => WIP(net[e]) = net[e].num_jobs

WellFormed(n) ==
    /\ n.num_jobs >= 1
    /\ \A i \in 1..Len(n.stations) :
          n.stations[i].num_servers >= 1 /\ n.stations[i].mean_service_time > 0

\* C2: when run() returns on a network with num_jobs >= 1, servers >= 1,
\* positive service durations and simulation_time > 0, whatever the routing
\* matrix, the jobs held by the stations plus those in transit are num_jobs.
C2_WipConservedAtRunEnd ==
    \A e \in Engines :
        (net[e].pc = "done" /\ WellFormed(net[e]) /\ net[e].simulation_time > 0)
            => WIP(net[e]) = net[e].num_jobs

\* run() returned with a job waiting, a job in service and a job in transit
C2_Witness ==
    \E e \in Engines :
        /\ net[e].pc = "done" /\ WellFormed(net[e]) /\ net[e].simulation_time > 0
        /\ net[e].jobs_in_transit # {}
        /\ \E i \in 1..Len(net[e].stations) : net[e].stations[i].servers_busy > 0

\* what the caller configured
Configuration(n) ==
    [num_jobs |-> n.num_jobs, routing_matrix |-> n.routing_matrix,
     servers |-> [i \in 1..Len(n.stations) |-> n.stations[i].num_servers],
     means |-> [i \in 1..Len(n.stations) |-> n.stations[i].mean_service_time],
     simulation_time |-> n.simulation_time]

\* the results read after run(): total_completions, clock, station accumulators
Statistics(n) ==
    [total_completions |-> n.total_completions, current_time |-> n.current_time,
     stations |-> n.stations]

SameRun(a, b) ==
    /\ a.pc = "done" /\ b.pc = "done"
    /\ a.seed # None /\ a.seed = b.seed
    /\ Configuration(a) = Configuration(b)

\* C3: two runs with the same seed and configuration process the same
\* sequence of events and end with the same statistics.
C3_Determinism ==
    \A a, b \in Engines :
        (SameRun(net[a], net[b]) /\ net[a].warmup_time = net[b].warmup_time)
            => /\ net[a].trace = net[b].trace
               /\ Statistics(net[a]) = Statistics(net[b])

\* the repeated run has finished after drawing service times and routes
C3_Witness ==
    /\ SameRun(net[1], net[2]) /\ net[1].warmup_time = net[2].warmup_time
    /\ Len(net[2].draws) >= 3
    /\ \E i \in 1..Len(net[2].trace) : net[2].trace[i].event.station_id = 1

\* C4: an engine's draws come from its own seed's stream and nothing else:
\* its k-th draw is the k-th cell of the stream of the seed it was built
\* with, whatever other instances are built or run in between.
C4_InstanceIndependence ==
    \A e \in Engines :
        net[e].seed # None =>
            \A k \in 1..Len(net[e].draws) : net[e].draws[k] = <<net[e].seed, k>>

HasBadRow(matrix) == \E i \in 1..Len(matrix) : SumRow(matrix[i]) # RowOne

\* C5: a routing matrix with a row that does not sum to 1 is refused by the
\* constructor: no network exists with such a matrix, so no event is ever
\* scheduled or processed for it.
C5_BadRowFailsAtConstruction ==
    \A e \in Engines :
        HasBadRow(net[e].routing_matrix) =>
            /\ net[e].pc = "absent"
            /\ net[e].event_queue = <<>>
            /\ net[e].trace = <<>>

\* C6: run() is never entered with num_jobs <= 0, a station with
\* num_servers <= 0 or mean_service_time <= 0, or a routing matrix whose
\* dimension differs from the number of stations.
C6_BadConfigurationNeverRuns ==
    \A e \in Engines :
        net[e].pc \in {"loop", "popped", "done", "error"} =>
            /\ net[e].num_jobs > 0
            /\ \A i \in 1..Len(net[e].stations) :
                  /\ net[e].stations[i].num_servers > 0
                  /\ net[e].stations[i].mean_service_time > 0
            /\ Len(net[e].routing_matrix) = Len(net[e].stations)

\* C7: with the same seed, configuration and horizon, a run without warmup
\* and a run with warmup X > 0 process the same events and pass through the
\* same physical state after each of them.
C7_WarmupNeutrality ==
    \A a, b \in Engines :
        (SameRun(net[a], net[b]) /\ net[a].warmup_time = 0 /\ net[b].warmup_time > 0)
            => net[a].trace = net[b].trace

\* both runs are over, the one with warmup reset its statistics after
\* departures had been counted
C7_Witness ==
    /\ SameRun(net[2], net[1]) /\ net[2].warmup_time = 0 /\ net[1].warmup_time > 0
    /\ net[1].warmup_done
    /\ net[1].reset_clock > 0
    /\ net[1].total_completions < net[2].total_completions

\* the accumulators are as _reset_statistics leaves them
JustReset(n) ==
    /\ n.total_completions = 0
    /\ \A i \in 1..Len(n.stations) :
          /\ n.stations[i].total_arrivals = 0
          /\ n.stations[i].total_departures = 0
          /\ n.stations[i].total_service_time = 0
          /\ n.stations[i].queue_length_sum = 0
          /\ n.stations[i].last_update_time = n.current_time

\* C8: during run() the statistics are reset at the pop of the first event
\* whose time is >= warmup_time, before its handler runs, and never again
\* (and a run with warmup_time <= simulation_time does not return without
\* it); right after the reset every station's total_arrivals, total_departures,
\* total_service_time and queue_length_sum are 0, its last_update_time is
\* the clock, and total_completions is 0.
C8_WarmupReset ==
    [][\A e \in Engines :
        LET a == net[e]
            b == net'[e]
            reset == ~a.warmup_done /\ b.warmup_done
        IN  /\ (a.pc = "loop" /\ b.pc = "popped") =>
                  (reset <=> (~a.warmup_done /\ b.event.time >= a.warmup_time))
            /\ reset => (a.pc = "loop" /\ b.pc = "popped" /\ JustReset(b))
            /\ (Running(e) /\ a.warmup_done) => b.warmup_done
            /\ (a.pc = "popped" /\ ~a.warmup_done) => a.event.time < a.warmup_time
            /\ ~a.warmup_done => a.reset_clock = None
            /\ (b.pc = "done" /\ b.warmup_time <= b.simulation_time) => b.warmup_done
       ]_vars

\* the reset has just happened at a positive clock, after departures were
\* counted and with a job waiting, and the popped event is not handled yet
C8_Witness ==
    \E e \in Engines :
        /\ net[e].pc = "popped" /\ net[e].warmup_done
        /\ net[e].reset_clock = net[e].current_time /\ net[e].reset_clock > 0
        /\ \A i \in 1..Len(net[e].trace) : net[e].trace[i].event.time < net[e].warmup_time
        /\ \E i \in 1..Len(net[e].trace) : net[e].trace[i].event.event_type = DEPARTURE
        /\ JustReset(net[e])

\* C9: after a reset at clock r of a run with warmup X > 0, the denominator
\* of avg_queue_length is last_update_time - r and the denominator of
\* utilization is num_servers * (last_update_time - r), for every station.
C9_DenominatorsSinceReset ==
    \A e \in Engines :
        (net[e].warmup_done /\ net[e].warmup_time > 0) =>
            \A i \in 1..Len(net[e].stations) :
                LET s == net[e].stations[i]
                    elapsed == s.last_update_time - net[e].reset_clock
                IN  /\ avg_queue_length_denominator(s) = elapsed
                    /\ utilization_denominator(s) = s.num_servers * elapsed

\* C10: every pop returns a pending event of minimum time, no pending event
\* is earlier than the clock, and the clock never goes back.
C10_Chronological ==
    [][\A e \in Engines :
        LET a == net[e]
            b == net'[e]
        IN  /\ (a.pc = "loop" /\ b.pc = "popped") =>
                  /\ \E i \in 1..Len(a.event_queue) : a.event_queue[i] = b.event
                  /\ \A i \in 1..Len(a.event_queue) : b.event.time <= a.event_queue[i].time
            /\ \A i \in 1..Len(b.event_queue) : b.event_queue[i].time >= b.current_time
            /\ b.pc # "absent" => b.current_time >= a.current_time
       ]_vars

\* an event was popped ahead of a later one while another one of the same
\* time stays pending, after the clock has moved
C10_Witness ==
    \E e \in Engines :
        /\ net[e].pc = "popped" /\ net[e].current_time > 0
        /\ \E i \in 1..Len(net[e].event_queue) :
              net[e].event_queue[i].time > net[e].event.time
        /\ \E i \in 1..Len(net[e].event_queue) :
              net[e].event_queue[i].time = net[e].event.time

\* C11: in every reachable state every station has
\* 0 <= servers_busy <= num_servers; a Departure about to be handled finds
\* servers_busy >= 1 at its station, so complete_service never takes it
\* below 0.
C11_ServerOccupancyBounds ==
    \A e \in Engines :
        /\ \A i \in 1..Len(net[e].stations) :
              /\ 0 <= net[e].stations[i].servers_busy
              /\ net[e].stations[i].servers_busy <= net[e].stations[i].num_servers
        /\ (net[e].pc = "popped" /\ net[e].event.event_type = DEPARTURE) =>
              net[e].stations[net[e].event.station_id + 1].servers_busy >= 1

\* a station with two servers has both busy and a job waiting
C11_Witness ==
    \E e \in Engines : \E i \in 1..Len(net[e].stations) :
        /\ net[e].stations[i].num_servers = 2
        /\ net[e].stations[i].servers_busy = 2
        /\ net[e].stations[i].queue # <<>>

\* how often job j waits in the queue of station i
TimesQueued(n, i, j) ==
    Cardinality({k \in 1..Len(n.stations[i].queue) : n.stations[i].queue[k] = j})

\* pending Departure events of job j: j is in service
TimesInService(n, j) ==
    Cardinality({k \in 1..Len(n.event_queue) :
                    /\ n.event_queue[k].event_type = DEPARTURE
                    /\ n.event_queue[k].job_id = j})

\* the places job j is in: queue slots, services and jobs_in_transit
Places(n, j) ==
    LET queued == [i \in 1..Len(n.stations) |-> TimesQueued(n, i, j)]
        ids == [i \in 1..Len(n.stations) |-> i]
    IN  SumOver(queued, ids) + TimesInService(n, j)
            + (IF j \in n.jobs_in_transit THEN 1 ELSE 0)

\* C12: in every reachable state each job is in at most one place: once in
\* one station's queue, or in service at one station (one pending
\* Departure), or in jobs_in_transit.
C12_JobLocationExclusive ==
    \A e \in Engines : \A j \in DOMAIN net[e].jobs : Places(net[e], j) <= 1

\* one job waits, one is in service and one is in transit, all at once
C12_Witness ==
    \E e \in Engines :
        /\ net[e].pc = "loop"
        /\ \E j \in DOMAIN net[e].jobs : j \in net[e].jobs_in_transit
        /\ \E j \in DOMAIN net[e].jobs : TimesInService(net[e], j) = 1
        /\ \E j \in DOMAIN net[e].jobs, i \in 1..Len(net[e].stations) :
              TimesQueued(net[e], i, j) = 1
        /\ \A j \in DOMAIN net[e].jobs : Places(net[e], j) = 1

\* the Departure events pending for station i, as a set of job ids
InServiceAt(n, i) ==
    {n.event_queue[k].job_id : k \in
        {k \in 1..Len(n.event_queue) :
            /\ n.event_queue[k].event_type = DEPARTURE
            /\ n.event_queue[k].station_id = i - 1}}

\* C13: at every station a handler only appends the arriving job at the
\* tail of the queue and only takes the job at its head into service, so a
\* job never starts service while a job enqueued before it is still waiting.
C13_FifoService ==
    [][\A e \in Engines :
        LET a == net[e]
            b == net'[e]
        IN  (a.pc = "popped" /\ b.pc = "loop") =>
                \A i \in 1..Len(a.stations) :
                    LET before == a.stations[i].queue
                        joined == IF a.event.event_type = ARRIVAL /\ a.event.station_id = i - 1
                                  THEN Append(before, a.event.job_id) ELSE before
                        after == b.stations[i].queue
                        started == InServiceAt(b, i) \ InServiceAt(a, i)
                    IN  \/ after = joined /\ started = {}
                        \/ /\ joined # <<>>
                           /\ after = Tail(joined)
                           /\ started = {Head(joined)}
       ]_vars

\* a Departure has just taken the head of a queue of two into service: the
\* job that arrived later is still waiting
C13_Witness ==
    \E e \in Engines : \E i \in 1..Len(net[e].stations) :
        /\ net[e].pc = "loop"
        /\ net[e].trace # <<>>
        /\ LET last == net[e].trace[Len(net[e].trace)].event
           IN  last.event_type = DEPARTURE /\ last.station_id = i - 1
        /\ Len(net[e].stations[i].queue) = 1
        /\ \E j \in InServiceAt(net[e], i) :
              /\ net[e].jobs[j].station_visits # <<>>
              /\ LET v == net[e].jobs[j].station_visits[Len(net[e].jobs[j].station_visits)]
                 IN  v[1] = i - 1 /\ v[2] = net[e].current_time /\ v[2] > 0

\* C14: on a well-formed network with a finite horizon > 0 run() eventually
\* returns, and when it has returned the clock has reached simulation_time
\* and the event queue is not empty (a returned run stays returned, so a
\* return on an empty queue or before the horizon never reaches the target).
ReturnedAtHorizon(n) ==
    /\ n.pc = "done"
    /\ n.current_time >= n.simulation_time
    /\ n.event_queue # <<>>

C15_CompletionsRecorded ==
    \A e \in Engines :
        (net[e].pc = "done" /\ WellFormed(net[e])
            /\ net[e].simulation_time > 0
            /\ 0 <= net[e].warmup_time /\ net[e].warmup_time <= net[e].simulation_time)
        => /\ net[e].total_completions >= 1
           /\ net[e].warmup_done
           /\ net[e].trace # <<>>
           /\ net[e].trace[Len(net[e].trace)].event.event_type = DEPARTURE
           /\ net[e].trace[Len(net[e].trace)].event.time >= net[e].reset_clock

\* the run returned with the reset on its very last event: earlier
\* departures were discarded and exactly the last one is counted
C15_Witness ==
    \E e \in Engines :
        /\ net[e].pc = "done" /\ WellFormed(net[e])
        /\ net[e].warmup_time > 0 /\ net[e].warmup_time <= net[e].simulation_time
        /\ net[e].total_completions = 1
        /\ net[e].reset_clock = net[e].current_time
        /\ \E i \in 1..(Len(net[e].trace) - 1) :
              net[e].trace[i].event.event_type = DEPARTURE

\* C16: when run() has returned, every station has
\* total_service_time <= num_servers * last_update_time, so its
\* utilization lies between 0 and 1.
C16_UtilizationIsFraction ==
    \A e \in Engines :
        net[e].pc = "done" =>
            \A i \in 1..Len(net[e].stations) :
                net[e].stations[i].total_service_time
                    <= utilization_denominator(net[e].stations[i])

Max(x, y) == IF x > y THEN x ELSE y
Min(x, y) == IF x < y THEN x ELSE y

\* the time integral of station i's queue length from the last statistics
\* reset (time 0 if none) to the station's last_update_time, read off the
\* processed events: the queue keeps the length it has after event k until
\* event k + 1
ExactQueueIntegral(n, i) ==
    LET from == IF n.reset_clock = None THEN 0 ELSE n.reset_clock
        to == n.stations[i].last_update_time
        piece == [k \in 1..(Len(n.trace) - 1) |->
                    Len(n.trace[k].physical.queues[i])
                        * Max(0, Min(n.trace[k + 1].event.time, to)
                                    - Max(n.trace[k].event.time, from))]
        ids == [k \in 1..(Len(n.trace) - 1) |-> k]
    IN  SumOver(piece, ids)

\* C17: after any sequence of events each station's queue_length_sum is the
\* exact time integral of its queue length from the last statistics reset
\* (time 0 if none) to its last_update_time, also when jobs wait in the
\* initial station's queue from time 0.
C17_QueueLengthIntegral ==
    \A e \in Engines :
        BetweenEvents(net[e]) =>
            \A i \in 1..Len(net[e].stations) :
                net[e].stations[i].queue_length_sum = ExactQueueIntegral(net[e], i)

\* C18: in a well-formed network (num_jobs >= 1, every station with at least
\* one server and positive service durations) the event queue is non-empty in
\* every state from initialize_jobs() on, after each completed event handler.
C18_EventQueueNeverEmpty ==
    \A e \in Engines :
        (BetweenEvents(net[e]) /\ WellFormed(net[e])) => net[e].event_queue # <<>>

\* a handler has completed and a single event is pending while another job waits
C18_Witness ==
    \E e \in Engines :
        /\ net[e].pc = "loop"
        /\ WellFormed(net[e])
        /\ net[e].trace # <<>>
        /\ Len(net[e].event_queue) = 1
        /\ \E i \in 1..Len(net[e].stations) : net[e].stations[i].queue # <<>>

\* the Arrival events of job j that wait to be handled: those in the event
\* queue and the popped one whose handler has not run yet
PendingArrivals(n, j) ==
    LET queued == {n.event_queue[k] : k \in
                      {k \in 1..Len(n.event_queue) :
                          /\ n.event_queue[k].event_type = ARRIVAL
                          /\ n.event_queue[k].job_id = j}}
    IN  IF n.pc = "popped" /\ n.event.event_type = ARRIVAL /\ n.event.job_id = j
        THEN queued \cup {n.event}
        ELSE queued

ArrivalCount(n, j) ==
    Cardinality({k \in 1..Len(n.event_queue) :
                    /\ n.event_queue[k].event_type = ARRIVAL
                    /\ n.event_queue[k].job_id = j})

\* C19: handling a Departure of job j from station S at time t puts j in
\* jobs_in_transit and schedules exactly one Arrival for j, at time t, at a
\* station d with routing_matrix[S][d] > 0; j leaves jobs_in_transit only
\* when that Arrival is handled; and while j is in transit the clock stays at
\* the time of its pending Arrival, so no event with a later time is handled
\* before it.
C19_InstantaneousRouting ==
    [][\A e \in Engines :
        LET a == net[e]
            b == net'[e]
        IN  /\ (a.pc = "popped" /\ a.event.event_type = DEPARTURE /\ b.pc = "loop") =>
                  LET j == a.event.job_id
                      S == a.event.station_id
                  IN  /\ b.jobs_in_transit = a.jobs_in_transit \cup {j}
                      /\ ArrivalCount(a, j) = 0
                      /\ ArrivalCount(b, j) = 1
                      /\ \A x \in PendingArrivals(b, j) :
                            /\ x.time = a.current_time
                            /\ x.station_id \in 0..(a.num_stations - 1)
                            /\ a.routing_matrix[S + 1][x.station_id + 1] > 0
            /\ \A j \in a.jobs_in_transit \ b.jobs_in_transit :
                  /\ a.pc = "popped"
                  /\ a.event.event_type = ARRIVAL
                  /\ a.event.job_id = j
                  /\ a.event.time = a.current_time
            /\ \A j \in b.jobs_in_transit :
                  /\ Cardinality(PendingArrivals(b, j)) = 1
                  /\ \A x \in PendingArrivals(b, j) : x.time = b.current_time
       ]_vars

\* a routed job's Arrival has been handled at the time of its Departure while
\* an event with a later time was waiting in the event queue
C19_Witness ==
    \E e \in Engines :
        LET n == net[e]
            K == Len(n.trace)
        IN  /\ n.pc = "loop"
            /\ K >= 2
            /\ n.trace[K].event.event_type = ARRIVAL
            /\ n.trace[K].event.time > 0
            /\ n.trace[K].event.job_id \notin n.jobs_in_transit
            /\ \E k \in 1..(K - 1) :
                  /\ n.trace[k].event.event_type = DEPARTURE
                  /\ n.trace[k].event.job_id = n.trace[K].event.job_id
                  /\ n.trace[k].event.time = n.trace[K].event.time
                  /\ n.trace[K].event.job_id \in n.trace[k].physical.jobs_in_transit
                  /\ \E i \in 1..Len(n.trace[k].physical.event_queue) :
                        n.trace[k].physical.event_queue[i].time > n.trace[k].event.time

\* the Departure events of job j waiting in the event queue
PendingDepartures(n, j) ==
    {n.event_queue[k] : k \in
        {k \in 1..Len(n.event_queue) :
            /\ n.event_queue[k].event_type = DEPARTURE
            /\ n.event_queue[k].job_id = j}}

\* C20: whenever a handler selects a job for service, the visit record
\* (S, start, start + duration) is appended to the history of that same job
\* and its departure_time is the time of the Departure event scheduled for
\* that job at S; a handler appends to no history other than that of the
\* job whose Departure it schedules, and to at most one history.
C20_VisitBelongsToServedJob ==
    [][\A e \in Engines :
        LET a == net[e]
            b == net'[e]
            Scheduled(j) == PendingDepartures(b, j) \ PendingDepartures(a, j)
            Grown(j) == b.jobs[j].station_visits # a.jobs[j].station_visits
        IN  (a.pc = "popped" /\ b.pc = "loop") =>
                /\ \A j \in DOMAIN a.jobs :
                      IF Scheduled(j) = {}
                      THEN ~Grown(j)
                      ELSE /\ Cardinality(Scheduled(j)) = 1
                           /\ \A x \in Scheduled(j) :
                                 /\ x.time >= a.current_time
                                 /\ b.jobs[j].station_visits =
                                       Append(a.jobs[j].station_visits,
                                              <<x.station_id, a.current_time, x.time>>)
                /\ Cardinality({j \in DOMAIN a.jobs : Grown(j)}) <= 1
       ]_vars

\* a Departure handler has just taken a waiting job, not the departing one,
\* into service: its history ends with the visit whose departure_time is the
\* time of its pending Departure
C20_Witness ==
    \E e \in Engines :
        LET n == net[e]
            K == Len(n.trace)
        IN  /\ n.pc = "loop"
            /\ K >= 1
            /\ n.trace[K].event.event_type = DEPARTURE
            /\ \E j \in DOMAIN n.jobs :
                  /\ j # n.trace[K].event.job_id
                  /\ n.jobs[j].station_visits # <<>>
                  /\ LET v == n.jobs[j].station_visits[Len(n.jobs[j].station_visits)]
                     IN  /\ v[1] = n.trace[K].event.station_id
                         /\ v[2] = n.current_time
                         /\ \E x \in PendingDepartures(n, j) :
                               x.time = v[3] /\ x.station_id = v[1]

\* the Arrival events of job j handled so far, in the order of handling
ArrivalsHandled(n, j) ==
    SelectSeq([k \in 1..Len(n.trace) |-> n.trace[k].event],
              LAMBDA x : x.event_type = ARRIVAL /\ x.job_id = j)

\* C21: in every station-visit record (station_id, arrival_time,
\* departure_time) of a job, arrival_time is the time at which that job's
\* Arrival event at that station was handled (the time it was enqueued
\* there), also for a job that waited in the queue and was started by a later
\* Departure: the m-th record of a job carries the station and the time of
\* its m-th handled Arrival.
C21_VisitArrivalTime ==
    \A e \in Engines :
        BetweenEvents(net[e]) =>
            \A j \in DOMAIN net[e].jobs :
                LET visits == net[e].jobs[j].station_visits
                    arrivals == ArrivalsHandled(net[e], j)
                IN  /\ Len(visits) <= Len(arrivals)
                    /\ \A m \in 1..Len(visits) :
                          /\ visits[m][1] = arrivals[m].station_id
                          /\ visits[m][2] = arrivals[m].time

\* no job waits at a station of n while one of its servers is idle
WorkConserving(n) ==
    \A i \in 1..Len(n.stations) :
        n.stations[i].queue # <<>> =>
            n.stations[i].servers_busy = n.stations[i].num_servers

\* C22: after every completed event handler no station has a waiting job
\* while a server is idle (a non-empty queue implies servers_busy =
\* num_servers); so the job that process_arrival takes into service is
\* always the arriving job itself, never one that was queued before.
C22_WorkConservation ==
    [][\A e \in Engines :
        LET a == net[e]
            b == net'[e]
        IN  /\ BetweenEvents(b) => WorkConserving(b)
            /\ (a.pc = "popped" /\ a.event.event_type = ARRIVAL /\ b.pc = "loop") =>
                  \A j \in DOMAIN a.jobs :
                      PendingDepartures(b, j) # PendingDepartures(a, j) =>
                          j = a.event.job_id
       ]_vars

\* an Arrival handler has just taken the arriving job into service while
\* another station has all servers busy and a job waiting
C22_Witness ==
    \E e \in Engines :
        LET n == net[e]
            K == Len(n.trace)
        IN  /\ n.pc = "loop"
            /\ K >= 1
            /\ n.trace[K].event.event_type = ARRIVAL
            /\ n.trace[K].event.time > 0
            /\ \E x \in PendingDepartures(n, n.trace[K].event.job_id) :
                  x.station_id = n.trace[K].event.station_id
            /\ \E i \in 1..Len(n.stations) :
                  /\ n.stations[i].queue # <<>>
                  /\ n.stations[i].servers_busy = n.stations[i].num_servers

\* positions of the event queue of n whose event satisfies the description
DeparturesAt(n, i) ==
    {k \in 1..Len(n.event_queue) :
        /\ n.event_queue[k].event_type = DEPARTURE
        /\ n.event_queue[k].station_id = i - 1}

EventsOf(n, j) == {k \in 1..Len(n.event_queue) : n.event_queue[k].job_id = j}

ArrivingJobs(n) ==
    {n.event_queue[k].job_id : k \in
        {k \in 1..Len(n.event_queue) : n.event_queue[k].event_type = ARRIVAL}}

InitialArrivalsHandled(n) == \A j \in DOMAIN n.jobs : ArrivalsHandled(n, j) # <<>>

\* C23: after every completed event handler, for each station S the number
\* of pending Departure events for S equals S.servers_busy, every job has at
\* most one pending event, a job waiting in a queue has none, and once all
\* initial arrivals have been handled the jobs with a pending Arrival are
\* exactly jobs_in_transit.
C23_PendingEventsMirrorState ==
    \A e \in Engines :
        LET n == net[e]
        IN  BetweenEvents(n) =>
                /\ \A i \in 1..Len(n.stations) :
                      Cardinality(DeparturesAt(n, i)) = n.stations[i].servers_busy
                /\ \A j \in DOMAIN n.jobs :
                      /\ Cardinality(EventsOf(n, j)) <= 1
                      /\ (\E i \in 1..Len(n.stations) : TimesQueued(n, i, j) > 0) =>
                            EventsOf(n, j) = {}
                /\ InitialArrivalsHandled(n) => ArrivingJobs(n) = n.jobs_in_transit

\* all initial arrivals are handled; one job is in service, one waits and
\* one is in transit with its Arrival pending
C23_Witness ==
    \E e \in Engines :
        LET n == net[e]
        IN  /\ n.pc = "loop"
            /\ InitialArrivalsHandled(n)
            /\ n.jobs_in_transit # {}
            /\ ArrivingJobs(n) = n.jobs_in_transit
            /\ \E i \in 1..Len(n.stations) :
                  /\ n.stations[i].queue # <<>>
                  /\ n.stations[i].servers_busy >= 1
                  /\ Cardinality(DeparturesAt(n, i)) = n.stations[i].servers_busy

\* total_departures summed over the stations of n
DeparturesCounted(n) ==
    LET counts == [i \in 1..Len(n.stations) |-> n.stations[i].total_departures]
        ids == [i \in 1..Len(n.stations) |-> i]
    IN  SumOver(counts, ids)

\* C24: in every reachable state total_completions equals the sum over all
\* stations of total_departures, before and after the warmup reset.
C24_CompletionCountConsistent ==
    \A e \in Engines : net[e].total_completions = DeparturesCounted(net[e])

\* departures were handled before a warmup reset at a positive time and
\* again after it
C24_Witness ==
    \E e \in Engines :
        LET n == net[e]
        IN  /\ n.warmup_done
            /\ n.reset_clock # None
            /\ n.reset_clock > 0
            /\ n.total_completions >= 1
            /\ DeparturesCounted(n) >= 1
            /\ \E k \in 1..Len(n.trace) :
                  /\ n.trace[k].event.event_type = DEPARTURE
                  /\ n.trace[k].event.time < n.reset_clock

\* the handled events of n whose time is at or beyond the horizon
Overshoot(n) == {k \in 1..Len(n.trace) : n.trace[k].event.time >= n.simulation_time}

\* C25: run() handles at most one event whose time is >= simulation_time,
\* that event is a Departure and it is the last event handled; so when run()
\* returns on a well-formed network the clock is >= simulation_time and the
\* Arrival scheduled by that last Departure is left pending with its job in
\* jobs_in_transit.
C25_HorizonOvershoot ==
    \A e \in Engines :
        LET n == net[e]
            K == Len(n.trace)
        IN  /\ n.pc \in {"loop", "popped", "done"} =>
                  /\ Cardinality(Overshoot(n)) <= 1
                  /\ \A k \in Overshoot(n) :
                        k = K /\ n.trace[k].event.event_type = DEPARTURE
            /\ (n.pc = "done" /\ WellFormed(n)) =>
                  /\ n.current_time >= n.simulation_time
                  /\ Overshoot(n) = {K}
                  /\ K >= 1
                  /\ LET j == n.trace[K].event.job_id
                     IN  /\ j \in n.jobs_in_transit
                         /\ Cardinality(PendingArrivals(n, j)) = 1
                         /\ \A x \in PendingArrivals(n, j) : x.time = n.current_time

\* run() has returned with the clock strictly beyond the horizon after
\* handling events at earlier times
C25_Witness ==
    \E e \in Engines :
        LET n == net[e]
        IN  /\ n.pc = "done"
            /\ n.current_time > n.simulation_time
            /\ Len(n.trace) >= 4
            /\ Overshoot(n) = {Len(n.trace)}
            /\ n.trace[Len(n.trace)].event.job_id \in n.jobs_in_transit

====
